---- MODULE Spec2Model ----
(***************************************************************************)
(* Model of PrepRunFp/RunFp/RunFp.py: the scoped working directory         *)
(* (set_directory) and the task executor (RunFp.execute).                  *)
(*                                                                         *)
(* A path is a sequence of components; an absolute path starts with "/".   *)
(* The file system is the set of regular files, the set of directories and *)
(* the set of symbolic links <<link path, target>>.  The process has one   *)
(* working directory, cwd, shared by every thread of the process.          *)
(***************************************************************************)
EXTENDS Naturals, Sequences, FiniteSets, TLC

VARIABLES
    regular,    \* absolute paths of the regular files
    dirs,       \* absolute paths of the directories
    links,      \* symbolic links: pairs <<absolute link path, target>>
    cwd,        \* the process working directory (os.getcwd())
    inv,        \* per thread: the position and the locals of its execute call
    calls       \* number of execute invocations started so far

vars == <<regular, dirs, links, cwd, inv, calls>>

----------------------------------------------------------------------------
(* Bounds and input domains *)

MaxCalls == 2

\* the threads of the process; sequential invocations all run in the first
Threads == {1, 2}
SeqThreads == {1}

Root == <<"/", "work">>
SrcDir == Root \o <<"inputs">>

\* files that may or may not have been prepared under task_path
SrcRel == {<<"POSCAR">>, <<"INCAR">>, <<"a", "POSCAR">>, <<"extra.json">>}

\* "notes" names a regular file of the starting directory, not a directory
TaskNames == {"t1", "t2", "notes"}
TaskPaths == {<<"inputs">>}
BackNames == {"backward_dir", "out"}
LogNames == {"log"}
BackwardLists == {<<"OUTCAR">>}

\* the lists input_files() of the concrete task types that are tried
InputFileLists ==
    { <<>>,
      << <<"POSCAR">> >>,
      << <<"POSCAR">>, <<"INCAR">> >>,
      << <<"INCAR">>, <<"POSCAR">> >>,
      << <<"POSCAR">>, <<"a", "POSCAR">> >>,
      << <<"POSCAR">>, <<"a", "POSCAR">>, <<"INCAR">> >> }

\* optional_artifact: absent, or an insertion-ordered mapping key -> file location
OptItemLists ==
    { <<>>,
      << [key |-> "aux", val |-> SrcDir \o <<"extra.json">>] >>,
      << [key |-> "extra.json", val |-> SrcDir \o <<"extra.json">>] >>,
      << [key |-> "POSCAR", val |-> SrcDir \o <<"POSCAR">>] >>,
      << [key |-> "missing.dat", val |-> SrcDir \o <<"missing.dat">>],
         [key |-> "extra.json", val |-> SrcDir \o <<"extra.json">>] >> }

OptArtifacts ==
    { [present |-> FALSE, items |-> <<>>] }
    \cup { [present |-> TRUE, items |-> l] : l \in OptItemLists }

\* a value of the run configuration: its Python type and its content
StrVal(s) == [dtype |-> "str", val |-> s]
IntVal(s) == [dtype |-> "int", val |-> s]

\* the schema args() of the concrete task type: one declared key with a default
ArgsSchema == { [name |-> "command", dtype |-> "str", default |-> StrVal("vasp_std")] }

\* mappings given as config["run"] (sets of <<key, value>> pairs)
RunDatas ==
    { {},
      { <<"command", StrVal("mpirun vasp")>> },
      { <<"unknown", StrVal("x")>> },
      { <<"_comment", StrVal("note")>> },
      { <<"command", IntVal("4")>> } }

\* config: the keys it holds, and the value under "run" (None or a mapping)
Configs ==
    { [keys |-> {}, run |-> [isNone |-> TRUE, data |-> {}]],
      [keys |-> {"run"}, run |-> [isNone |-> TRUE, data |-> {}]] }
    \cup { [keys |-> {"run"}, run |-> [isNone |-> FALSE, data |-> d]] : d \in RunDatas }

\* what run_task may do: return a directory name, or raise
RunErrors == {"TransientError", "FatalError", "RuntimeError"}

----------------------------------------------------------------------------
(* Paths and the file system *)

IsAbs(p) == Len(p) > 0 /\ p[1] = "/"

\* pathlib's p / q
Join(p, q) == IF IsAbs(q) THEN q ELSE p \o q

\* Path.name
Name(p) == IF Len(p) = 0 THEN "" ELSE p[Len(p)]

\* Path.resolve() / Path.absolute() of p when the working directory is c
Resolve(c, p) == Join(c, p)

Prefixes(p) == { SubSeq(p, 1, n) : n \in 2..Len(p) }

LinkPaths(ls) == { l[1] : l \in ls }

\* an existence test that does not see symbolic links
ExistsNoLinks(p, fs) == p \in fs.regular \/ p \in fs.dirs

\* the path p names an entry of the file system (what makes symlink_to and
\* mkdir raise FileExistsError)
Exists(p, fs) == p \in fs.regular \/ p \in fs.dirs \/ p \in LinkPaths(fs.links)

\* os.path.isfile: follows symbolic links
IsFile(p, fs) ==
    \/ p \in fs.regular
    \/ \E l \in fs.links : l[1] = p /\ l[2] \in fs.regular

FS == [regular |-> regular, dirs |-> dirs, links |-> links]

NoErr == [kind |-> "none", by |-> "none", path |-> <<>>]
Err(k, b, p) == [kind |-> k, by |-> b, path |-> p]

----------------------------------------------------------------------------
(* RunFp: configuration *)

\* execute, line 199: ip["config"]["run"] if ip["config"]["run"] is not None else {}
GetRunConfig(config) ==
    IF "run" \notin config.keys
    THEN [err |-> Err("KeyError", "execute", <<"run">>), data |-> {}]
    ELSE [err |-> NoErr, data |-> IF config.run.isNone THEN {} ELSE config.run.data]

DeclaredKeys == { a.name : a \in ArgsSchema }
Keys(data) == { kv[1] : kv \in data }

\* keys matched by trim_pattern="_*"
UnderscoreKeys == {"_comment"}

\* base.normalize_value(data, trim_pattern="_*"): declared defaults are filled
\* in, undeclared keys matching the trim pattern are dropped
NormalizeValue(data) ==
    { kv \in data : ~(kv[1] \in UnderscoreKeys /\ kv[1] \notin DeclaredKeys) }
    \cup { <<a.name, a.default>> : a \in { b \in ArgsSchema : b.name \notin Keys(data) } }

\* base.check_value(data, strict=strict): a declared key of the wrong type is
\* rejected in both modes, an undeclared key only in strict mode
CheckValue(data, strict) ==
    IF \E kv \in data : \E a \in ArgsSchema : a.name = kv[1] /\ a.dtype # kv[2].dtype
    THEN Err("ArgumentTypeError", "normalize_config", <<>>)
    ELSE IF strict /\ \E kv \in data : kv[1] \notin DeclaredKeys
    THEN Err("ArgumentKeyError", "normalize_config", <<>>)
    ELSE NoErr

\* RunFp.normalize_config(data, strict)
normalize_config(data, strict) ==
    [err |-> CheckValue(NormalizeValue(data), strict), data |-> NormalizeValue(data)]

\* line 200 with the default strict setting of normalize_config
ExecuteNormalizeStrict(data) == normalize_config(data, TRUE)

\* execute, line 200: type(self).normalize_config(run_config, strict=False)
ExecuteNormalize(data) == normalize_config(data, FALSE)

\* normalize_config(data) called on its own: strict defaults to True (line 148)
StandaloneNormalize(data) == normalize_config(data, TRUE)

\* no standalone validation has been made
NotChecked == [done |-> FALSE, err |-> NoErr, data |-> {}]

----------------------------------------------------------------------------
(* RunFp.execute: lines 196-210, everything before the scoped directory *)

RECURSIVE SeqMap(_, _, _)
\* [(Path(task_path) / ii).resolve() for ii in lst]
SeqMap(c, task_path, lst) ==
    IF lst = <<>> THEN <<>>
    ELSE <<Resolve(c, Join(task_path, Head(lst)))>> \o SeqMap(c, task_path, Tail(lst))

\* execute, lines 204-205
ResolveInputFiles(c, task_path, decl) == SeqMap(c, task_path, decl)

\* execute, lines 207-209: the keys of optional_artifact, in iteration order
OptNames(items) == [n \in 1..Len(items) |-> <<items[n].key>>]

\* execute, lines 207-210
ResolveOptFiles(c, task_path, items) == SeqMap(c, task_path, OptNames(items))

\* the error of line 208 when optional_artifact was not supplied: the OPIO holds
\* None for it (AttributeError) or no such key (KeyError)
AbsentArtifactErrors == {"AttributeError", "KeyError"}

\* lines 225-229 with the requested name in place of the returned one
OutputPathRequested(work_dir, requested, returned) == Join(work_dir, <<requested>>)

\* execute, lines 225-229
OutputPath(work_dir, requested, returned) == Join(work_dir, <<returned>>)

\* line 63 as a plain statement after the yield instead of a finally clause
RestoredDirOnSuccess(saved, current, failed) == IF failed THEN current ELSE saved

\* set_directory, line 63: the directory the finally clause changes to
RestoredDir(saved, current, failed) == saved

\* line 216 naming the declared file name instead of the resolved path
FatalPathDeclared(decl_entry, resolved) == decl_entry

\* execute, line 216: the path named by the FatalError
FatalPath(decl_entry, resolved) == resolved

\* execute, lines 217-218 and 221-222: the name of the link made for ii
LinkName(ii) == Name(ii)

Inputs ==
    [ task_name : TaskNames, task_path : TaskPaths, backward_list : BackwardLists,
      log_name : LogNames, backward_dir_name : BackNames, config : Configs,
      optional_artifact : OptArtifacts, optional_input : {{}} ]

NoIp == [ task_name |-> "", task_path |-> <<>>, backward_list |-> <<>>,
          log_name |-> "", backward_dir_name |-> "",
          config |-> [keys |-> {}, run |-> [isNone |-> TRUE, data |-> {}]],
          optional_artifact |-> [present |-> FALSE, items |-> <<>>],
          optional_input |-> {} ]

NoCall == [ n |-> 0, cwd |-> <<>>, backward_dir_name |-> "", log_name |-> "",
            backward_list |-> <<>>, run_config |-> {}, optional_input |-> {},
            links |-> {} ]

Idle ==
    [ pc |-> "idle", ip |-> NoIp, decl |-> <<>>,
      input_files |-> <<>>, opt_input_files |-> <<>>, run_config |-> {},
      work_dir |-> <<>>, saved_cwd |-> <<>>, entered |-> FALSE, i |-> 1,
      err |-> NoErr, ret |-> "", out |-> <<>>, run |-> NoCall,
      cwd0 |-> <<>>, dirs0 |-> {}, links0 |-> {}, checked |-> NotChecked ]

Init ==
    /\ \E prepared \in SUBSET { SrcDir \o r : r \in SrcRel } :
          regular = prepared \cup {Root \o <<"notes">>}
    /\ dirs = {Root, SrcDir, SrcDir \o <<"a">>}
    /\ links = {}
    /\ cwd = Root
    /\ inv = [t \in Threads |-> Idle]
    /\ calls = 0

Set(t, r) == inv' = [inv EXCEPT ![t] = r]

\* the locals after lines 196-210, or the error raised there
Prepare(ip, decl, absentErr) ==
    LET g == GetRunConfig(ip.config)
        n == ExecuteNormalize(g.data)
        base == [Idle EXCEPT !.ip = ip, !.decl = decl,
                             !.cwd0 = cwd, !.dirs0 = dirs, !.links0 = links]
    IN  IF g.err # NoErr THEN [base EXCEPT !.pc = "done", !.err = g.err]
        ELSE IF n.err # NoErr THEN [base EXCEPT !.pc = "done", !.err = n.err]
        ELSE IF ~ip.optional_artifact.present
        THEN [base EXCEPT !.pc = "done", !.run_config = n.data,
                          !.input_files = ResolveInputFiles(cwd, ip.task_path, decl),
                          !.work_dir = <<ip.task_name>>,
                          !.err = Err(absentErr, "execute", <<"optional_artifact">>)]
        ELSE [base EXCEPT !.pc = "save", !.run_config = n.data,
                          !.input_files = ResolveInputFiles(cwd, ip.task_path, decl),
                          !.work_dir = <<ip.task_name>>,
                          !.opt_input_files =
                              ResolveOptFiles(cwd, ip.task_path, ip.optional_artifact.items)]

\* an invocation of execute begins (lines 196-210)
Start(t) ==
    /\ inv[t].pc = "idle"
    /\ \A u \in Threads : inv[u].pc = "idle"
    /\ calls < MaxCalls
    /\ \E ip \in Inputs, decl \in InputFileLists, e \in AbsentArtifactErrors :
          Set(t, Prepare(ip, decl, e))
    /\ calls' = calls + 1
    /\ UNCHANGED <<regular, dirs, links, cwd>>

----------------------------------------------------------------------------
(* set_directory(work_dir), entered by execute at line 212 *)

\* line 57: cwd = Path().absolute()
SaveCwd(t) ==
    /\ inv[t].pc = "save"
    /\ Set(t, [inv[t] EXCEPT !.pc = "mkdir", !.saved_cwd = Resolve(cwd, <<>>)])
    /\ UNCHANGED <<regular, dirs, links, cwd, calls>>

\* line 58 without exist_ok=True: any existing entry makes mkdir fail
MkdirFailsOnExisting(p, fs) == Exists(p, fs)

\* line 58: mkdir(exist_ok=True, parents=True) fails on p exactly when p exists
\* and is not a directory
MkdirFails(p, fs) == p \notin fs.dirs /\ Exists(p, fs)

\* line 58: path.mkdir(exist_ok=True, parents=True); a failure here is raised
\* before the try block, so the finally clause does not run
Mkdir(t) ==
    LET p == Resolve(cwd, inv[t].work_dir)
    IN  /\ inv[t].pc = "mkdir"
        /\ IF MkdirFails(p, FS)
           THEN /\ Set(t, [inv[t] EXCEPT !.pc = "done",
                                         !.err = Err("FileExistsError", "set_directory", p)])
                /\ UNCHANGED dirs
           ELSE /\ Set(t, [inv[t] EXCEPT !.pc = "chdir"])
                /\ dirs' = dirs \cup Prefixes(p)
        /\ UNCHANGED <<regular, links, cwd, calls>>

\* line 60: os.chdir(path), inside the try block
Chdir(t) ==
    LET p == Resolve(cwd, inv[t].work_dir)
    IN  /\ inv[t].pc = "chdir"
        /\ IF p \in dirs
           THEN /\ cwd' = p
                /\ Set(t, [inv[t] EXCEPT !.pc = "link", !.entered = TRUE, !.i = 1])
           ELSE /\ cwd' = cwd
                /\ Set(t, [inv[t] EXCEPT !.pc = "exit",
                                         !.err = Err("FileNotFoundError", "set_directory", p)])
        /\ UNCHANGED <<regular, dirs, links, calls>>

\* line 63: finally: os.chdir(cwd); then execute returns (lines 225-229) or the
\* failure raised in the block goes on to the caller
ExitScope(t) ==
    /\ inv[t].pc = "exit"
    /\ cwd' = RestoredDir(inv[t].saved_cwd, cwd, inv[t].err # NoErr)
    /\ Set(t, [inv[t] EXCEPT
                 !.pc = "done",
                 !.out = IF inv[t].err = NoErr
                         THEN OutputPath(inv[t].work_dir, inv[t].ip.backward_dir_name,
                                         inv[t].ret)
                         ELSE <<>>])
    /\ UNCHANGED <<regular, dirs, links, calls>>

----------------------------------------------------------------------------
(* RunFp.execute: the block of lines 213-223 *)

\* line 218 in a task directory that is emptied before each link is made
SymlinkToAlone(c, iname, ii, fs) == { <<Resolve(c, <<iname>>), ii>> }

\* Path(iname).symlink_to(ii) in the working directory c: the links after it,
\* or the links unchanged when the name is taken
SymlinkTo(c, iname, ii, fs) ==
    IF Exists(Resolve(c, <<iname>>), fs)
    THEN fs.links
    ELSE fs.links \cup { <<Resolve(c, <<iname>>), ii>> }

\* lines 214-218: one iteration of the loop over the mandatory files
LinkMandatory(t) ==
    LET s == inv[t]
        ii == s.input_files[s.i]
    IN  /\ s.pc = "link"
        /\ s.i <= Len(s.input_files)
        /\ IF ~IsFile(ii, FS)
           THEN /\ Set(t, [s EXCEPT !.pc = "exit",
                                    !.err = Err("FatalError", "execute",
                                                FatalPath(s.decl[s.i], ii))])
                /\ UNCHANGED links
           ELSE IF Exists(Resolve(cwd, <<LinkName(ii)>>), FS)
           THEN /\ Set(t, [s EXCEPT !.pc = "exit",
                                    !.err = Err("FileExistsError", "symlink_to",
                                                Resolve(cwd, <<LinkName(ii)>>))])
                /\ UNCHANGED links
           ELSE /\ Set(t, [s EXCEPT !.i = s.i + 1])
                /\ links' = SymlinkTo(cwd, LinkName(ii), ii, FS)
        /\ UNCHANGED <<regular, dirs, cwd, calls>>

\* line 219: the loop over the mandatory files is over
EndMandatory(t) ==
    /\ inv[t].pc = "link"
    /\ inv[t].i > Len(inv[t].input_files)
    /\ Set(t, [inv[t] EXCEPT !.pc = "optlink", !.i = 1])
    /\ UNCHANGED <<regular, dirs, links, cwd, calls>>

\* lines 219-222: one iteration of the loop over the optional files
LinkOptional(t) ==
    LET s == inv[t]
        ii == s.opt_input_files[s.i]
    IN  /\ s.pc = "optlink"
        /\ s.i <= Len(s.opt_input_files)
        /\ IF ~IsFile(ii, FS)
           THEN /\ Set(t, [s EXCEPT !.i = s.i + 1])
                /\ UNCHANGED links
           ELSE IF Exists(Resolve(cwd, <<LinkName(ii)>>), FS)
           THEN /\ Set(t, [s EXCEPT !.pc = "exit",
                                    !.err = Err("FileExistsError", "symlink_to",
                                                Resolve(cwd, <<LinkName(ii)>>))])
                /\ UNCHANGED links
           ELSE /\ Set(t, [s EXCEPT !.i = s.i + 1])
                /\ links' = SymlinkTo(cwd, LinkName(ii), ii, FS)
        /\ UNCHANGED <<regular, dirs, cwd, calls>>

\* line 223: the loop over the optional files is over
EndOptional(t) ==
    /\ inv[t].pc = "optlink"
    /\ inv[t].i > Len(inv[t].opt_input_files)
    /\ Set(t, [inv[t] EXCEPT !.pc = "run"])
    /\ UNCHANGED <<regular, dirs, links, cwd, calls>>

\* the call of run_task as the abstract method sees it
CallOf(s, c, ls) ==
    [ n |-> s.run.n + 1, cwd |-> c,
      backward_dir_name |-> s.ip.backward_dir_name, log_name |-> s.ip.log_name,
      backward_list |-> s.ip.backward_list, run_config |-> s.run_config,
      optional_input |-> s.ip.optional_input, links |-> ls ]

\* what leaves execute when run_task raised an error of kind k (line 223: the
\* call is not wrapped, the error goes on unchanged)
RunTaskError(k) == Err(k, "run_task", <<>>)

\* line 223: run_task returns the name of the output directory
RunTaskReturns(t) ==
    /\ inv[t].pc = "run"
    /\ \E r \in BackNames :
          Set(t, [inv[t] EXCEPT !.pc = "exit", !.ret = r,
                                !.run = CallOf(inv[t], cwd, links)])
    /\ UNCHANGED <<regular, dirs, links, cwd, calls>>

\* line 223: run_task raises
RunTaskRaises(t) ==
    /\ inv[t].pc = "run"
    /\ \E k \in RunErrors :
          Set(t, [inv[t] EXCEPT !.pc = "exit", !.err = RunTaskError(k),
                                !.run = CallOf(inv[t], cwd, links)])
    /\ UNCHANGED <<regular, dirs, links, cwd, calls>>

\* the caller validates, with normalize_config on its own (lines 147-165), the
\* mapping it gave to execute as config["run"]
ValidateConfig(t) ==
    LET s == inv[t]
        v == StandaloneNormalize(s.ip.config.run.data)
    IN  /\ s.pc = "done"
        /\ ~s.checked.done
        /\ "run" \in s.ip.config.keys /\ ~s.ip.config.run.isNone
        /\ Set(t, [s EXCEPT !.checked = [done |-> TRUE, err |-> v.err, data |-> v.data]])
        /\ UNCHANGED <<regular, dirs, links, cwd, calls>>

\* the caller has taken the result (or the error) of execute
Return(t) ==
    /\ inv[t].pc = "done"
    /\ Set(t, Idle)
    /\ UNCHANGED <<regular, dirs, links, cwd, calls>>

\* the process is killed during an invocation and a new one is started in the
\* same directory: the file system stays as it was left
Crash ==
    /\ \E t \in Threads : inv[t].pc \in {"mkdir", "chdir", "link", "optlink", "run", "exit"}
    /\ inv' = [t \in Threads |-> Idle]
    /\ cwd' = Root
    /\ UNCHANGED <<regular, dirs, links, calls>>

Next ==
    \/ \E t \in SeqThreads :
          \/ Start(t)
          \/ SaveCwd(t)
          \/ Mkdir(t)
          \/ Chdir(t)
          \/ LinkMandatory(t)
          \/ EndMandatory(t)
          \/ LinkOptional(t)
          \/ EndOptional(t)
          \/ RunTaskReturns(t)
          \/ RunTaskRaises(t)
          \/ ExitScope(t)
          \/ ValidateConfig(t)
          \/ Return(t)
    \/ Crash

Spec == Init /\ [][Next]_vars

----------------------------------------------------------------------------
(* Invocations of distinct tasks in two threads of one process *)

\* the inputs of the concurrent invocations: usable records that differ in the
\* task and in the optional artifact
ConcInputs ==
    { ip \in Inputs :
        /\ ip.task_name \in {"t1", "t2"}
        /\ ip.backward_dir_name = "backward_dir"
        /\ ip.config = [keys |-> {"run"}, run |-> [isNone |-> FALSE, data |-> {}]]
        /\ ip.optional_artifact.present
        /\ Len(ip.optional_artifact.items) <= 1
        /\ \A n \in 1..Len(ip.optional_artifact.items) :
              ip.optional_artifact.items[n].key = "extra.json" }

ConcFileLists == { <<>>, << <<"POSCAR">> >> }

\* the task names of the invocations that are under way
ActiveNames == { inv[u].ip.task_name : u \in { v \in Threads : inv[v].pc # "idle" } }

\* an invocation of execute begins in thread t (lines 196-210) while the other
\* thread may be inside its own; the caller gives concurrent tasks distinct names
StartConc(t) ==
    /\ inv[t].pc = "idle"
    /\ calls < MaxCalls
    /\ \E ip \in ConcInputs, decl \in ConcFileLists :
          /\ ip.task_name \notin ActiveNames
          /\ Set(t, Prepare(ip, decl, "KeyError"))
    /\ calls' = calls + 1
    /\ UNCHANGED <<regular, dirs, links, cwd>>

NextConc ==
    \E t \in Threads :
          \/ StartConc(t)
          \/ SaveCwd(t)
          \/ Mkdir(t)
          \/ Chdir(t)
          \/ LinkMandatory(t)
          \/ EndMandatory(t)
          \/ LinkOptional(t)
          \/ EndOptional(t)
          \/ RunTaskReturns(t)
          \/ RunTaskRaises(t)
          \/ ExitScope(t)
          \/ Return(t)

\* the concurrent invocations find every file prepared
InitConc == Init /\ regular = { SrcDir \o r : r \in SrcRel } \cup {Root \o <<"notes">>}

SpecConc == InitConc /\ [][NextConc]_vars

----------------------------------------------------------------------------
(* Properties *)

\* the task directory of the invocation s, as seen from where it was called
TaskDir(s) == Resolve(s.cwd0, s.work_dir)

\* the mandatory files of the invocation s, resolved under task_path
Mandatory(s) ==
    { Resolve(s.cwd0, Join(s.ip.task_path, s.decl[n])) : n \in 1..Len(s.decl) }

MissingMandatory(s) == { f \in Mandatory(s) : f \notin regular }

\* the invocation s has ended with the fatal missing-file error of line 216
FatalMissing(s) == s.pc = "done" /\ s.err.kind = "FatalError" /\ s.err.by = "execute"

\* the links of the task directory of s that this invocation has made
NewLinks(s) == links \ s.links0

\* the files the invocation s is to link have pairwise distinct base names
DistinctNames(s) ==
    LET fs == s.input_files \o s.opt_input_files
    IN  \A m, n \in 1..Len(fs) : (m # n /\ fs[m] \in regular /\ fs[n] \in regular)
                                    => Name(fs[m]) # Name(fs[n])

\* the entries an earlier invocation left in the task directory of s
LeftInTaskDir(s) ==
    { l \in s.links0 : SubSeq(l[1], 1, Len(l[1]) - 1) = TaskDir(s) }

FreshTaskDir(s) == LeftInTaskDir(s) = {}

\* C1: if a mandatory file is not a regular file under task_path, execute
\* raises the fatal missing-file error and run_task is never invoked (stated
\* for the invocations that reach the staging block of line 212).
C1_MissingFileIsFatal ==
    \A t \in Threads :
        (inv[t].pc = "done" /\ inv[t].entered /\ MissingMandatory(inv[t]) # {})
            => (FatalMissing(inv[t]) /\ inv[t].run.n = 0)

\* C2: when a set_directory scope has exited, on whatever path, the working
\* directory is the one of before the entry, and a failure raised inside the
\* block leaves the scope unchanged.
C2_ScopeRestoresCwd ==
    [][ \A t \in Threads :
          inv'[t].pc = "done" =>
              /\ cwd' = inv'[t].cwd0
              /\ inv[t].pc = "exit" => inv'[t].err = inv[t].err ]_vars

C2_Witness ==
    \E t \in Threads :
        /\ inv[t].pc = "done" /\ inv[t].entered
        /\ inv[t].err = Err("RuntimeError", "run_task", <<>>)
        /\ cwd = inv[t].cwd0 /\ cwd # TaskDir(inv[t])

\* C3: a config without a "run" key, or with "run" set to null, is taken as an
\* empty run configuration: execute does not fail on it and normalizes {}.
C3_AbsentRunIsEmpty ==
    \A t \in Threads :
        (inv[t].pc # "idle"
           /\ ("run" \notin inv[t].ip.config.keys \/ inv[t].ip.config.run.isNone))
            => /\ inv[t].err.kind # "KeyError"
               /\ inv[t].run_config = NormalizeValue({})

\* C4: with all mandatory files present, every optional file that exists is
\* linked in the task directory under its base name, an optional file that does
\* not exist gets no link and raises nothing, and run_task is invoked (stated for
\* the invocations that reach the staging block with a task directory that
\* holds no link yet and with no two files to link of the same base name).
C4_OptionalFilesLinked ==
    \A t \in Threads :
        LET s == inv[t]
            items == s.ip.optional_artifact.items
        IN  (/\ s.pc = "done" /\ s.entered /\ MissingMandatory(s) = {}
             /\ DistinctNames(s) /\ FreshTaskDir(s))
              => /\ s.run.n = 1
                 /\ \A n \in 1..Len(items) :
                       IF items[n].val \in regular
                       THEN <<TaskDir(s) \o <<Name(items[n].val)>>, items[n].val>> \in links
                       ELSE TaskDir(s) \o <<Name(items[n].val)>> \notin LinkPaths(NewLinks(s))

\* C5: for an optional_artifact entry whose key differs from the file name of
\* its value, a finished execute has left in the task directory a link named
\* after the value's file, beside the links of the mandatory files, and returns
\* task_name/<name returned by run_task>.
C5_LinkNamedAfterValue ==
    \A t \in Threads :
        LET s == inv[t]
            items == s.ip.optional_artifact.items
        IN  (s.pc = "done" /\ s.err = NoErr)
              => /\ s.out = <<s.ip.task_name, s.ret>>
                 /\ \A f \in Mandatory(s) : <<TaskDir(s) \o <<Name(f)>>, f>> \in links
                 /\ \A n \in 1..Len(items) :
                       (items[n].key # Name(items[n].val) /\ items[n].val \in regular)
                         => <<TaskDir(s) \o <<Name(items[n].val)>>, items[n].val>> \in links

\* C6 as claimed: when the fatal missing-file error is raised, no directory has
\* been created or entered and no link has been made.
C6_FailsBeforeAnyChange ==
    \A t \in Threads :
        FatalMissing(inv[t])
            => /\ ~inv[t].entered
               /\ dirs = inv[t].dirs0 /\ links = inv[t].links0 /\ cwd = inv[t].cwd0

\* C6, amended: when the fatal missing-file error is raised, the task
\* directory has been created and entered, exactly the mandatory files listed
\* before the first missing one have been linked there by this invocation,
\* run_task has not been invoked, the working directory is the one of before
\* the call, and the error names the resolved absolute path of that file.
C6_FatalAfterPartialStaging ==
    \A t \in Threads :
        LET s == inv[t]
        IN  FatalMissing(s) =>
              \E n \in 1..Len(s.decl) :
                 /\ s.err.path = SrcDir \o s.decl[n]
                 /\ IsAbs(s.err.path)
                 /\ s.err.path \notin regular
                 /\ \A m \in 1..(n - 1) : SrcDir \o s.decl[m] \in regular
                 /\ NewLinks(s) =
                       { <<TaskDir(s) \o <<Name(s.decl[m])>>, SrcDir \o s.decl[m]>> :
                           m \in 1..(n - 1) }
                 /\ s.entered /\ TaskDir(s) \in dirs
                 /\ s.links0 \subseteq links /\ s.dirs0 \subseteq dirs
                 /\ s.run.n = 0
                 /\ cwd = s.cwd0

C6_Witness ==
    \E t \in Threads :
        /\ FatalMissing(inv[t])
        /\ TaskDir(inv[t]) \notin inv[t].dirs0
        /\ NewLinks(inv[t]) # {}
        /\ inv[t].err.path = SrcDir \o <<"INCAR">>

\* C7: on a successful execute, backward_dir is task_name joined with the name
\* run_task returned; the requested name is only the argument of run_task.
C7_BackwardDirIsReturnedName ==
    \A t \in Threads :
        (inv[t].pc = "done" /\ inv[t].err = NoErr)
            => /\ inv[t].out = <<inv[t].ip.task_name, inv[t].ret>>
               /\ inv[t].run.n = 1
               /\ inv[t].run.backward_dir_name = inv[t].ip.backward_dir_name

C7_Witness ==
    \E t \in Threads :
        /\ inv[t].pc = "done" /\ inv[t].err = NoErr
        /\ inv[t].ret # inv[t].ip.backward_dir_name
        /\ inv[t].out = <<inv[t].ip.task_name, inv[t].ret>>

\* C8: an invocation whose task directory already holds links of an earlier
\* invocation, with all mandatory files present, completes staging and invokes
\* run_task.
C8_RetryStagesAgain ==
    \A t \in Threads :
        LET s == inv[t]
        IN  (/\ s.pc = "done" /\ s.entered
             /\ MissingMandatory(s) = {} /\ DistinctNames(s)
             /\ ~FreshTaskDir(s))
              => s.run.n = 1

\* C9: a failure raised by run_task leaves execute as a transient error, and a
\* fatal error leaves execute only for a missing mandatory file.
C9_RunFailureIsTransient ==
    \A t \in Threads :
        inv[t].pc = "done" =>
            /\ inv[t].err.by = "run_task" => inv[t].err.kind = "TransientError"
            /\ inv[t].err.kind = "FatalError" => inv[t].err.by = "execute"

\* C10: without optional_artifact, and with a usable config and all mandatory
\* files present, execute gets to staging, makes exactly the mandatory links
\* and invokes run_task.
C10_AbsentArtifactIsEmpty ==
    \A t \in Threads :
        LET s == inv[t]
        IN  (/\ s.pc = "done" /\ ~s.ip.optional_artifact.present
             /\ GetRunConfig(s.ip.config).err = NoErr
             /\ normalize_config(GetRunConfig(s.ip.config).data, FALSE).err = NoErr
             /\ s.ip.task_name # "notes"
             /\ FreshTaskDir(s) /\ MissingMandatory(s) = {} /\ DistinctNames(s))
              => /\ s.run.n = 1
                 /\ NewLinks(s) = { <<TaskDir(s) \o <<Name(f)>>, f>> : f \in Mandatory(s) }

\* the invocation s has got past lines 57-58 of set_directory, or failed there
PastMkdir(s) == s.saved_cwd # <<>> /\ s.pc \notin {"mkdir"}

\* C11: set_directory on a path that is already a directory (such as the task
\* directory of an earlier invocation) does not fail on it: the scope is
\* entered, and the block runs with the working directory set to that path.
C11_ExistingDirectoryIsEntered ==
    \A t \in Threads :
        LET s == inv[t]
        IN  (PastMkdir(s) /\ TaskDir(s) \in s.dirs0)
              => /\ s.err.by # "set_directory"
                 /\ s.pc # "chdir" => s.entered
                 /\ s.pc \in {"link", "optlink", "run"} => cwd = TaskDir(s)
                 /\ s.run.n = 1 => s.run.cwd = TaskDir(s)

C11_Witness ==
    \E t \in Threads :
        /\ inv[t].pc = "done" /\ inv[t].entered
        /\ TaskDir(inv[t]) \in inv[t].dirs0
        /\ calls = 2
        /\ inv[t].run.n = 1 /\ inv[t].run.cwd = TaskDir(inv[t])

\* the keys of a run configuration that args() does not declare
Undeclared(data) == { k \in Keys(data) : k \notin DeclaredKeys }

\* every declared key of the run configuration holds a value of its type
WellTyped(data) ==
    \A kv \in data : \A a \in ArgsSchema : a.name = kv[1] => a.dtype = kv[2].dtype

\* C12 as claimed: a config["run"] with an undeclared key does not make execute
\* fail in normalization, and normalize_config with its default strict setting
\* rejects the same mapping.
C12_StrictRejectsUndeclared ==
    \A t \in Threads :
        LET s == inv[t]
            data == s.ip.config.run.data
        IN  (s.pc = "done" /\ s.checked.done /\ Undeclared(data) # {})
              => /\ s.err.by # "normalize_config"
                 /\ s.checked.err # NoErr

\* C12, amended: an undeclared key never makes execute fail in normalization,
\* and run_task receives the mapping with every declared key filled in and the
\* undeclared keys outside the trim pattern "_*" kept; normalize_config with its
\* default strict setting rejects the same mapping with a key error exactly
\* when an undeclared key is outside the trim pattern: undeclared keys that
\* match "_*" are dropped in both modes and are not rejected.
C12_LenientInExecuteStrictAlone ==
    \A t \in Threads :
        LET s == inv[t]
            data == s.ip.config.run.data
        IN  (s.pc = "done" /\ s.checked.done /\ Undeclared(data) # {} /\ WellTyped(data))
              => /\ s.err.by # "normalize_config"
                 /\ s.run.n = 1 =>
                       /\ DeclaredKeys \subseteq Keys(s.run.run_config)
                       /\ data \ s.run.run_config
                            = { kv \in data : kv[1] \in UnderscoreKeys }
                 /\ (s.checked.err.kind = "ArgumentKeyError")
                       <=> (Undeclared(data) \ UnderscoreKeys # {})
                 /\ (s.checked.err = NoErr)
                       <=> (Undeclared(data) \subseteq UnderscoreKeys)

C12_Witness ==
    \E t \in Threads :
        /\ inv[t].pc = "done" /\ inv[t].checked.done
        /\ "unknown" \in Keys(inv[t].ip.config.run.data)
        /\ inv[t].run.n = 1
        /\ <<"unknown", StrVal("x")>> \in inv[t].run.run_config
        /\ inv[t].checked.err.kind = "ArgumentKeyError"

\* C13: run_task is invoked at most once in an invocation; when it is invoked
\* the working directory is the task directory, which holds a link for every
\* mandatory file and for every optional file that is present; after that no
\* link is made and no staging step runs.
C13_StagedThenRunOnce ==
    \A t \in Threads :
        LET s == inv[t]
            items == s.ip.optional_artifact.items
        IN  /\ s.run.n <= 1
            /\ s.run.n = 1 =>
                  /\ s.run.cwd = TaskDir(s)
                  /\ \A f \in Mandatory(s) : <<TaskDir(s) \o <<Name(f)>>, f>> \in s.run.links
                  /\ \A n \in 1..Len(items) :
                        items[n].val \in regular
                          => <<TaskDir(s) \o <<Name(items[n].val)>>, items[n].val>>
                               \in s.run.links
                  /\ links = s.run.links
                  /\ s.pc \in {"exit", "done"}

\* C14: when invocations of distinct tasks overlap in the threads of one
\* process, every link is made directly inside a task directory of the starting
\* directory, each invocation stages with its own task directory as working
\* directory, and once no scope is open the working directory is the starting
\* directory again.
C14_ConcurrentScopesKeepCwd ==
    /\ \A l \in links :
          \E n \in TaskNames : SubSeq(l[1], 1, Len(l[1]) - 1) = Root \o <<n>>
    /\ \A t \in Threads :
          inv[t].run.n = 1 => inv[t].run.cwd = Root \o <<inv[t].ip.task_name>>
    /\ (\A t \in Threads : inv[t].pc \in {"idle", "done"}) => cwd = Root

\* C15: no step of execute removes a directory or a link or changes the files
\* under task_path, and when execute has ended, on whatever path, the task
\* directory it entered and the links made so far are still there.
C15_NothingRemoved ==
    [][ /\ regular' = regular
        /\ dirs \subseteq dirs'
        /\ links \subseteq links'
        /\ \A t \in Threads :
              (inv'[t].pc = "done" /\ inv'[t].entered)
                => /\ TaskDir(inv'[t]) \in dirs'
                   /\ inv'[t].links0 \subseteq links' ]_vars

C15_Witness ==
    \E t \in Threads :
        /\ inv[t].pc = "done" /\ inv[t].entered
        /\ inv[t].err.by = "run_task"
        /\ inv[t].links0 # {} /\ NewLinks(inv[t]) # {}
        /\ inv[t].links0 \subseteq links
        /\ TaskDir(inv[t]) \in dirs

\* the files the invocation s goes through, in the order of lines 214-222
ToStage(s) == s.input_files \o s.opt_input_files

\* n is the first position of ToStage(s) whose file exists and has the base
\* name of an existing file at an earlier position m
FirstClash(s, m, n) ==
    LET fs == ToStage(s)
        Clash(a, b) == /\ a < b /\ fs[a] \in regular /\ fs[b] \in regular
                       /\ Name(fs[a]) = Name(fs[b])
    IN  /\ m \in 1..Len(fs) /\ n \in 1..Len(fs)
        /\ Clash(m, n)
        /\ \A a, b \in 1..Len(fs) : Clash(a, b) => (n < b \/ (n = b /\ m <= a))

\* C16 as claimed: when two files to stage share a base name and both exist,
\* staging ends with the file system error of symlink_to, not with the fatal
\* error, and run_task is not invoked.
C16_SameNameIsFileSystemError ==
    \A t \in Threads :
        LET s == inv[t]
        IN  (s.pc = "done" /\ s.entered
               /\ \E m, n \in 1..Len(ToStage(s)) : FirstClash(s, m, n))
              => /\ s.err.kind = "FileExistsError" /\ s.err.by = "symlink_to"
                 /\ s.run.n = 0

\* C16, amended: links are named by base name and a name is linked once: when
\* two files to stage share a base name and both exist (two mandatory entries,
\* or an optional_artifact key with the name of a mandatory file), and no
\* mandatory file listed before the second is missing, staging ends with the
\* file system error of symlink_to, not with the fatal error, and run_task is
\* not invoked; in a task directory that held no link before the call the
\* error is raised at the second and the link keeps pointing at the first.
C16_SecondSameNameFails ==
    \A t \in Threads :
        LET s == inv[t]
        IN  \A m, n \in 1..Len(ToStage(s)) :
              (/\ s.pc = "done" /\ s.entered
               /\ FirstClash(s, m, n)
               /\ \A k \in 1..Len(s.input_files) :
                     k < n => s.input_files[k] \in regular)
                => /\ s.err.kind = "FileExistsError" /\ s.err.by = "symlink_to"
                   /\ s.run.n = 0
                   /\ FreshTaskDir(s) =>
                        /\ s.err.path = TaskDir(s) \o <<Name(ToStage(s)[n])>>
                        /\ <<TaskDir(s) \o <<Name(ToStage(s)[m])>>, ToStage(s)[m]>> \in links
                        /\ \A l \in links :
                              l[1] = TaskDir(s) \o <<Name(ToStage(s)[n])>>
                                => l[2] = ToStage(s)[m]

\* two mandatory entries of the same base name
C16_Witness ==
    \E t \in Threads :
        /\ inv[t].pc = "done" /\ inv[t].entered /\ FreshTaskDir(inv[t])
        /\ FirstClash(inv[t], 1, 2)
        /\ inv[t].input_files[2] = SrcDir \o <<"a", "POSCAR">>
        /\ inv[t].err.kind = "FileExistsError"
        /\ <<TaskDir(inv[t]) \o <<"POSCAR">>, SrcDir \o <<"POSCAR">>>> \in links

====
